---- MODULE Spec2Model ----
(***************************************************************************)
(* Device activation manager and telemetry ingestion pipeline of the       *)
(* dozemate backend: the device routes (add / activate / mapping /         *)
(* active-device), the device management controller (update / delete /     *)
(* setActiveDevice / setInactiveDevice), the MQTT message handler and the  *)
(* HTTP /ingest route.                                                     *)
(*                                                                         *)
(* The store is MongoDB through Mongoose.  Every awaited storage call is   *)
(* one atomic storage step.  A document loaded with findOne and written    *)
(* back with save() writes only the paths whose value differs from the     *)
(* loaded value (Mongoose change tracking), which is what SaveActivated    *)
(* models.                                                                 *)
(***************************************************************************)
EXTENDS Integers, Sequences, FiniteSets, TLC

(***************************************************************************)
(* Bounds of the model.                                                    *)
(***************************************************************************)
DeviceIds == {"A", "B"}
ProfileIds == {"X", "Y"}
UserIds == {"u1", "u2"}
\* a requester whose user document does not exist (User.findById gives null)
GhostUser == "u0"
Requesters == UserIds \cup {GhostUser}
DeviceTypes == {"plain", "hrAlways", "hrChange"}
MaxOid == 2
MaxConc == 2
MaxRecords == 2
MaxSleep == 1
MaxArrivals == 3
MaxTicks == 2
TickMs == 6000

None == "none"
Oids == 1..MaxOid

Statuses == {"active", "inactive", "under maintenance"}

VARIABLES
  devices,        \* Device collection: deviceId -> document (oid = 0: no document)
  users,          \* User collection: userId -> [activeDevice, activeDevices, devices]
  nextOid,        \* next Mongo _id handed out by Device.create
  last,           \* the request handled by the last step and its response
  act,            \* in-flight PUT /activate handlers (interleaved specification)
  observed,       \* what the last mapping / active-device query returned
  now,            \* the server clock, in milliseconds
  healthData,     \* HealthData collection, in insertion order
  sleepData,      \* SleepData collection, in insertion order
  presenceState,  \* the process-wide tracker map: deviceId -> entry
  lastMsg,        \* the telemetry message handled by the last step and its outcome
  msgs,           \* in-flight MQTT message handlers (interleaved specification)
  line,           \* the UART line handed to the decoder
  parsed,         \* what the decoder returned for it
  data,           \* the payload of one health message, with its decoder lines
  merged          \* the document built from the payload and its lines

storeVars == <<devices, users, nextOid>>
pipeVars == <<healthData, sleepData, presenceState, lastMsg>>
decVars == <<line, parsed, data, merged>>
vars == <<devices, users, nextOid, last, act, observed, now, healthData,
          sleepData, presenceState, lastMsg, msgs, line, parsed, data, merged>>

(***************************************************************************)
(* Device documents (src/models/Device.js).  oid is the Mongo _id (0: the  *)
(* collection holds no document with this deviceId); users refer to        *)
(* devices by _id.                                                         *)
(***************************************************************************)
NoDevice ==
  [oid |-> 0, status |-> "inactive", profileId |-> None, userId |-> None,
   deviceType |-> None, lastActiveAt |-> 0]

\* User documents as the handlers use them: the single active-device pointer
\* (0: null), the activeDevices collection and the devices list.  The list
\* only ever receives fresh _ids, so it is kept as the set of its elements.
NoUserDoc == [activeDevice |-> 0, activeDevices |-> {}, devices |-> {}]

NoLast == [op |-> "none", dev |-> None, prof |-> None, user |-> None, code |-> 0]

Resp(op, d, p, u, code) ==
  [op |-> op, dev |-> d, prof |-> p, user |-> u, code |-> code]

\* devices of a profile that a query {profileId, status: "active"} matches
ActiveOf(devs, p) ==
  {d \in DeviceIds : devs[d].oid # 0 /\ devs[d].profileId = p
                     /\ devs[d].status = "active"}

\* devices that a query {profileId} matches
BoundTo(devs, p) ==
  {d \in DeviceIds : devs[d].oid # 0 /\ devs[d].profileId = p}

\* the deviceId whose document has this _id (None when there is none)
ById(devs, oid) ==
  IF \E d \in DeviceIds : devs[d].oid = oid /\ oid # 0
    THEN CHOOSE d \in DeviceIds : devs[d].oid = oid
    ELSE None

(***************************************************************************)
(* Status strings as requests carry them: a word, possibly in upper case,  *)
(* possibly padded with whitespace.                                        *)
(***************************************************************************)
StatusWords == Statuses \cup {"bogus"}
RawStatus(w, up, pad) == [word |-> w, upper |-> up, padded |-> pad]
RawStatuses ==
  {RawStatus(w, FALSE, FALSE) : w \in StatusWords}
    \cup {RawStatus("inactive", TRUE, FALSE), RawStatus("inactive", TRUE, TRUE)}
Absent == "absent"
\* the request carries no status field
NoStatus == [word |-> Absent, upper |-> FALSE, padded |-> FALSE]

ToLowerCase(s) == [s EXCEPT !.upper = FALSE]
Trim(s) == [s EXCEPT !.padded = FALSE]
\* the schema's enum validator: exact match of one of the three strings
EnumValid(s) == ~s.upper /\ ~s.padded /\ s.word \in Statuses
\* s === "inactive"
IsLiteral(s, w) == ~s.upper /\ ~s.padded /\ s.word = w

(***************************************************************************)
(* Telemetry.  A health payload carries heartRate and signals.presence;    *)
(* AbsentN stands for a field the payload does not carry.                  *)
(***************************************************************************)
AbsentN == 0 - 1
HrValues == {25, 75, 80}
\* heartRate and presence are the payload's own fields; lineHr and
\* linePresence are what its line / lines decode to (an "HR,<n>" line, a
\* "PRESENCE,<n>" line), AbsentN when the payload has no such line
NoLines == [lineHr : {AbsentN}, linePresence : {AbsentN}]
WithLines(fields, lines) ==
  {[heartRate |-> f.heartRate, presence |-> f.presence,
    lineHr |-> l.lineHr, linePresence |-> l.linePresence] :
      f \in fields, l \in lines}
Payloads ==
  WithLines([heartRate : HrValues \cup {AbsentN}, presence : {0, 1, AbsentN}],
            NoLines)
MetricKeys == {"heartRate"}

\* tracker entry; known = FALSE: the map has no entry for the device
NoEntry ==
  [known |-> FALSE, lastPresence |-> 1, lastValues |-> [k \in MetricKeys |-> AbsentN]]

NoMsg ==
  [via |-> "none", dev |-> None, kind |-> "none", heartRate |-> AbsentN,
   presence |-> AbsentN, lineHr |-> AbsentN, linePresence |-> AbsentN,
   stored |-> FALSE, retracted |-> FALSE, code |-> 0]

(***************************************************************************)
(* UART line decoder (src/routes/http.js, toNum and parseUartLine).  A     *)
(* line is its tag and the comma-separated values after it, each trimmed.  *)
(* A value is a decimal number, nothing at all (two commas in a row or a   *)
(* trailing comma), text that is no number, or the text "Infinity".        *)
(***************************************************************************)
MaxFields == 17
Num(n) == [cls |-> "num", n |-> n]
Blank == [cls |-> "blank", n |-> 0]
Text == [cls |-> "text", n |-> 0]
Inf == [cls |-> "inf", n |-> 0]
\* parts[i] of a position the line does not have
Undefined == [cls |-> "undefined", n |-> 0]
Tokens == {Num(0), Num(1), Num(75), Blank, Text, Inf}

\* the empty string
NoLine == [tag |-> "", fields |-> <<>>]
\* parts[i], i >= 1 (parts[0] is the tag)
Part(ln, i) == IF i <= Len(ln.fields) THEN ln.fields[i] ELSE Undefined
PartsLength(ln) == 1 + Len(ln.fields)

\* Number(v): Number("") is 0, Number("abc") and Number(undefined) are NaN
NaN == [finite |-> FALSE, n |-> 0]
Number(v) ==
  CASE v.cls = "num" -> [finite |-> TRUE, n |-> v.n]
    [] v.cls = "blank" -> [finite |-> TRUE, n |-> 0]
    [] OTHER -> NaN

\* toNum(v); AbsentN is undefined
toNum(v) == IF Number(v).finite THEN Number(v).n ELSE AbsentN

\* (parts[0] || "").toUpperCase()
Tags ==
  {"HRV_DATA", "TEMP_HUM", "HR", "hr", "RES", "STRESS", "RR", "MOTION",
   "PRESENCE", "ACT", "ACTIVITY", "BAT", "MIC", "LOG"}
ToUpperCase(t) == IF t = "hr" THEN "HR" ELSE t

HrvNames ==
  <<"mean_rr", "sdnn", "rmssd", "pnn50", "hr_median", "rr_tri_index",
    "tin_rmssd", "sd1", "sd2", "lf", "hf", "lfhf", "sample_entropy",
    "sd1sd2", "sns_index", "pns_index">>
HrvKeys == {HrvNames[i] : i \in 1..Len(HrvNames)}
PatchKeys == {"temperature", "humidity", "heartRate", "respiration", "hrv", "stress"}
NumSignalKeys == {"activity", "battery", "mic"}
FlagKeys == {"motion", "presence"}

\* a line that is too short populates the metric bag with one entry too few
HrvArityLoose(ln) == PartsLength(ln) >= 16
\* parts.length >= 17
HrvArity(ln) == PartsLength(ln) >= 17

\* the metric bag of an HRV_DATA line
HrvMetrics(ln) ==
  [k \in HrvKeys |->
     IF HrvArity(ln)
       THEN toNum(Part(ln, CHOOSE i \in 1..Len(HrvNames) : HrvNames[i] = k))
       ELSE AbsentN]

\* parts[1] !== undefined ? Number(parts[1]) === 1 : undefined
Flag(v) ==
  IF v = Undefined THEN "undefined"
  ELSE IF Number(v).finite /\ Number(v).n = 1 THEN "true" ELSE "false"

NoPatch == [k \in PatchKeys |-> AbsentN]
NoMetrics == [k \in HrvKeys |-> AbsentN]
NoSignals == [k \in NumSignalKeys |-> AbsentN]
NoFlags == [k \in FlagKeys |-> "undefined"]
Decoded(st, patch, metrics, signals, flags) ==
  [state |-> st, patch |-> patch, metrics |-> metrics, signals |-> signals,
   flags |-> flags]
\* no line has been decoded yet
NotParsed == Decoded("pending", NoPatch, NoMetrics, NoSignals, NoFlags)
\* return null
Null == Decoded("null", NoPatch, NoMetrics, NoSignals, NoFlags)

parseUartLine(ln) ==
  LET tag == ToUpperCase(ln.tag)
      one == Part(ln, 1)
      metrics == HrvMetrics(ln)
  IN IF ln = NoLine THEN Null
     ELSE
       CASE tag = "HRV_DATA" ->
              Decoded("decoded",
                      [NoPatch EXCEPT !["hrv"] = metrics["rmssd"],
                                      !["heartRate"] = metrics["hr_median"]],
                      metrics, NoSignals, NoFlags)
         [] tag = "TEMP_HUM" ->
              Decoded("decoded",
                      [NoPatch EXCEPT !["temperature"] = toNum(one),
                                      !["humidity"] = toNum(Part(ln, 2))],
                      NoMetrics, NoSignals, NoFlags)
         [] tag = "HR" ->
              Decoded("decoded", [NoPatch EXCEPT !["heartRate"] = toNum(one)],
                      NoMetrics, NoSignals, NoFlags)
         [] tag = "RES" ->
              Decoded("decoded", [NoPatch EXCEPT !["respiration"] = toNum(one)],
                      NoMetrics, NoSignals, NoFlags)
         [] tag = "STRESS" ->
              Decoded("decoded", [NoPatch EXCEPT !["stress"] = toNum(one)],
                      NoMetrics, NoSignals, NoFlags)
         [] tag = "MOTION" ->
              Decoded("decoded", NoPatch, NoMetrics, NoSignals,
                      [NoFlags EXCEPT !["motion"] = Flag(one)])
         [] tag = "PRESENCE" ->
              Decoded("decoded", NoPatch, NoMetrics, NoSignals,
                      [NoFlags EXCEPT !["presence"] = Flag(one)])
         [] tag \in {"ACT", "ACTIVITY"} ->
              Decoded("decoded", NoPatch, NoMetrics,
                      [NoSignals EXCEPT !["activity"] = toNum(one)], NoFlags)
         [] tag = "BAT" ->
              Decoded("decoded", NoPatch, NoMetrics,
                      [NoSignals EXCEPT !["battery"] = toNum(one)], NoFlags)
         [] tag = "MIC" ->
              Decoded("decoded", NoPatch, NoMetrics,
                      [NoSignals EXCEPT !["mic"] = toNum(one)], NoFlags)
         \* RR (sample_entropy: undefined) and unrecognized tags: raw only
         [] OTHER -> Decoded("decoded", NoPatch, NoMetrics, NoSignals, NoFlags)

\* the decoder is applied to the line
Decode ==
  /\ parsed = NotParsed
  /\ parsed' = parseUartLine(line)
  /\ UNCHANGED <<storeVars, last, act, observed, now, pipeVars, msgs, line, data,
              merged>>

(***************************************************************************)
(* Rule table.  config/metricSpec is not among the sources; the table is   *)
(* the one the specification describes: per device type, per metric name,  *)
(* an optional min, an optional max and a mode.  "plain" has no entry.     *)
(***************************************************************************)
NoBound == AbsentN
Rule(min, max, mode) == [min |-> min, max |-> max, mode |-> mode]

MetricSpec(type) ==
  CASE type = "hrAlways" -> [k \in {"heartRate"} |-> Rule(30, 220, "always")]
    [] type = "hrChange" -> [k \in {"heartRate"} |-> Rule(30, 220, "onchange")]
    [] OTHER -> [k \in {} |-> Rule(NoBound, NoBound, "always")]

(***************************************************************************)
(* The health branch of the MQTT message handler.                          *)
(***************************************************************************)
RetractWindowMs == 12000

\* lines 492-518: the base record; a missing heartRate defaults to 0
BaseRecord(d, pl, t) ==
  [deviceId |-> d, timestamp |-> t,
   heartRate |-> IF pl.heartRate = AbsentN THEN 0 ELSE pl.heartRate,
   presence |-> pl.presence]

\* line 521: Number(base.signals.presence ?? 1)
PresenceOf(base) == IF base.presence = AbsentN THEN 1 ELSE base.presence

\* lines 570-581 and 602-608: the decoded lines are folded into the record
\* that is saved; a decoded flat field or flag replaces the base one
MergedRecord(base, pl) ==
  [base EXCEPT
     !.heartRate = IF pl.lineHr # AbsentN THEN pl.lineHr ELSE @,
     !.presence = IF pl.linePresence # AbsentN THEN pl.linePresence ELSE @]

(***************************************************************************)
(* Line merge (src/routes/http.js 169-193, the same code at                *)
(* src/unnamed/part_000 564-608).  An object is the set of its own keys    *)
(* and their values; a key may be present with the value undefined.        *)
(***************************************************************************)
MaxLines == 2

\* a payload without heartRate, presence and lines
NoInput == [heartRate |-> AbsentN, presence |-> AbsentN, seq |-> <<>>]

\* the own keys of parsed.patch
PatchOwn(ln) ==
  LET tag == ToUpperCase(ln.tag)
  IN CASE tag = "HRV_DATA" ->
            {k \in {"hrv", "heartRate"} : parseUartLine(ln).patch[k] # AbsentN}
       [] tag = "TEMP_HUM" -> {"temperature", "humidity"}
       [] tag = "HR" -> {"heartRate"}
       [] tag = "RES" -> {"respiration"}
       [] tag = "STRESS" -> {"stress"}
       [] OTHER -> {}

\* the own keys of parsed.signals among motion and presence
FlagOwn(ln) ==
  LET tag == ToUpperCase(ln.tag)
  IN CASE tag = "MOTION" -> {"motion"}
       [] tag = "PRESENCE" -> {"presence"}
       [] OTHER -> {}

\* mergedPatch = {}, mergedSignals = {}
NoMergedPatch == [own |-> {}, val |-> NoPatch]
NoMergedFlags == [own |-> {}, val |-> NoFlags]

\* if (!parsed) continue; Object.assign(mergedPatch, parsed.patch)
AssignPatch(target, ln) ==
  IF parseUartLine(ln) = Null THEN target
  ELSE [own |-> target.own \cup PatchOwn(ln),
        val |-> [k \in PatchKeys |->
                   IF k \in PatchOwn(ln) THEN parseUartLine(ln).patch[k]
                   ELSE target.val[k]]]

\* if (!parsed) continue; Object.assign(mergedSignals, parsed.signals)
AssignFlags(target, ln) ==
  IF parseUartLine(ln) = Null THEN target
  ELSE [own |-> target.own \cup FlagOwn(ln),
        val |-> [k \in FlagKeys |->
                   IF k \in FlagOwn(ln) THEN parseUartLine(ln).flags[k]
                   ELSE target.val[k]]]

\* for (const ln of lines): the lines are folded in from left to right
RECURSIVE MergedPatch(_)
MergedPatch(seq) ==
  IF seq = <<>> THEN NoMergedPatch
  ELSE AssignPatch(MergedPatch(SubSeq(seq, 1, Len(seq) - 1)), seq[Len(seq)])
RECURSIVE MergedFlags(_)
MergedFlags(seq) ==
  IF seq = <<>> THEN NoMergedFlags
  ELSE AssignFlags(MergedFlags(SubSeq(seq, 1, Len(seq) - 1)), seq[Len(seq)])

\* base.signals.presence as it is stored: the payload's number, or null
PresenceText(n) == CASE n = 0 -> "0" [] n = 1 -> "1" [] OTHER -> "null"

Document(st, hr, resp, presence) ==
  [state |-> st, heartRate |-> hr, respiration |-> resp, presence |-> presence]
\* no document has been built yet
NotMerged == Document("pending", AbsentN, AbsentN, "null")

\* {...base, ...mergedPatch, signals: {...base.signals, ...mergedSignals}}
MergedDocument(in) ==
  LET base == BaseRecord(None, in, 0)
      patch == MergedPatch(in.seq)
      flags == MergedFlags(in.seq)
  IN Document("built",
              IF "heartRate" \in patch.own THEN patch.val["heartRate"]
              ELSE base.heartRate,
              IF "respiration" \in patch.own THEN patch.val["respiration"]
              ELSE 0,
              IF "presence" \in flags.own THEN flags.val["presence"]
              ELSE PresenceText(base.presence))

\* the document of one health message is built from its payload and lines
Merge ==
  /\ merged = NotMerged
  /\ merged' = MergedDocument(data)
  /\ UNCHANGED <<storeVars, last, act, observed, now, pipeVars, msgs, line,
                 parsed, data>>

\* line 523: present -> absent
DropsPresence(entry, presence) == entry.lastPresence = 1 /\ presence = 0

\* line 526: HealthData.deleteMany({ deviceId, timestamp: { $gte: cutoff } })
Retract(hd, d, cutoff) ==
  SelectSeq(hd, LAMBDA r : ~(r.deviceId = d /\ r.timestamp >= cutoff))

\* line 544: newData[key] ?? base[key]
RuleValue(pl, base, k) == IF pl[k] # AbsentN THEN pl[k] ELSE base[k]

\* lines 546-547
Violations(rules, pl, base) ==
  {k \in DOMAIN rules :
     \/ rules[k].min # NoBound /\ RuleValue(pl, base, k) < rules[k].min
     \/ rules[k].max # NoBound /\ RuleValue(pl, base, k) > rules[k].max}

\* lines 548-551: the keys pushed to changes
Changes(rules, lastValues, pl, base) ==
  {k \in DOMAIN rules :
     ~(rules[k].mode = "onchange" /\ lastValues[k] = RuleValue(pl, base, k))}

\* line 552: state.lastValues[key] = value for every key pushed to changes
LastValuesAfter(rules, lastValues, pl, base) ==
  [k \in MetricKeys |->
     IF k \in Changes(rules, lastValues, pl, base)
       THEN RuleValue(pl, base, k)
       ELSE lastValues[k]]

\* lines 555-562: the message goes on to be saved
PassesRules(rules, lastValues, pl, base) ==
  /\ Violations(rules, pl, base) = {}
  /\ Changes(rules, lastValues, pl, base) # {}

\* an update that sets the status and forgets the timestamp
TouchStatusOnly(devs, d, t) ==
  IF devs[d].oid # 0
    THEN [devs EXCEPT ![d].status = "active"]
    ELSE devs

\* lines 477-486: any message of a known device marks it active
Touch(devs, d, t) ==
  IF devs[d].oid # 0
    THEN [devs EXCEPT ![d].status = "active", ![d].lastActiveAt = t]
    ELSE devs

Msg(via, d, kind, pl, stored, retracted, code) ==
  [via |-> via, dev |-> d, kind |-> kind, heartRate |-> pl.heartRate,
   presence |-> pl.presence, lineHr |-> pl.lineHr,
   linePresence |-> pl.linePresence, stored |-> stored,
   retracted |-> retracted, code |-> code]

NoPayload ==
  [heartRate |-> AbsentN, presence |-> AbsentN, lineHr |-> AbsentN,
   linePresence |-> AbsentN]

NoRecord == [deviceId |-> None, timestamp |-> 0, heartRate |-> 0,
             presence |-> AbsentN]

IdleMsg ==
  [pc |-> "idle", dev |-> None, kind |-> None, heartRate |-> AbsentN,
   presence |-> AbsentN, lineHr |-> AbsentN, linePresence |-> AbsentN,
   docOid |-> 0, docType |-> None, rec |-> NoRecord,
   cutoff |-> 0, ref |-> "map", own |-> NoEntry, seq |-> 0,
   retracted |-> FALSE]

\* client.on("message") for a topic /<deviceId>/health, run without
\* interleaving
MqttHealth(d, pl) ==
  LET base == BaseRecord(d, pl, now)
      presence == PresenceOf(base)
      entry == presenceState[d]
      drops == DropsPresence(entry, presence)
      gated == [known |-> TRUE, lastPresence |-> presence,
                lastValues |-> entry.lastValues]
      rules == MetricSpec(devices[d].deviceType)
      passes == PassesRules(rules, entry.lastValues, pl, base)
  IN
  /\ Len(healthData) < MaxRecords
  /\ devices' = Touch(devices, d, now)
  /\ UNCHANGED <<decVars, users, nextOid, last, act, observed, now, sleepData, msgs>>
  /\ IF presence = 0
       THEN /\ healthData' = IF drops
                               THEN Retract(healthData, d, now - RetractWindowMs)
                               ELSE healthData
            /\ presenceState' = [presenceState EXCEPT ![d] = gated]
            /\ lastMsg' = Msg("mqtt", d, "health", pl, FALSE, drops, 0)
     ELSE IF devices[d].oid = 0
       \* line 540 reads device.deviceType of null: a TypeError, logged
       THEN /\ presenceState' = [presenceState EXCEPT ![d] = gated]
            /\ UNCHANGED healthData
            /\ lastMsg' = Msg("mqtt", d, "health", pl, FALSE, FALSE, 0)
     ELSE /\ presenceState' = [presenceState EXCEPT ![d] =
                 [gated EXCEPT !.lastValues =
                    LastValuesAfter(rules, entry.lastValues, pl, base)]]
          /\ healthData' = IF passes THEN Append(healthData, MergedRecord(base, pl))
                          ELSE healthData
          /\ lastMsg' = Msg("mqtt", d, "health", pl, passes, FALSE, 0)

SleepRecord(d, t) == [deviceId |-> d, timestamp |-> t]

\* a sleep branch that honours the presence gate
MqttSleepGated(d) ==
  /\ Len(sleepData) < MaxSleep
  /\ devices' = Touch(devices, d, now)
  /\ sleepData' = IF presenceState[d].lastPresence = 0 THEN sleepData
                  ELSE Append(sleepData, SleepRecord(d, now))
  /\ lastMsg' = Msg("mqtt", d, "sleep", NoPayload,
                    presenceState[d].lastPresence # 0, FALSE, 0)
  /\ UNCHANGED <<decVars, users, nextOid, last, act, observed, now, healthData,
                 presenceState, msgs>>

\* client.on("message") for a topic /<deviceId>/sleep
MqttSleep(d) ==
  /\ Len(sleepData) < MaxSleep
  /\ devices' = Touch(devices, d, now)
  /\ sleepData' = Append(sleepData, SleepRecord(d, now))
  /\ lastMsg' = Msg("mqtt", d, "sleep", NoPayload, TRUE, FALSE, 0)
  /\ UNCHANGED <<decVars, users, nextOid, last, act, observed, now, healthData,
                 presenceState, msgs>>

(***************************************************************************)
(* POST /ingest (src/routes/http.js).                                      *)
(***************************************************************************)
HttpIngest(d, kind, pl) ==
  /\ kind = "health" => Len(healthData) < MaxRecords
  /\ kind = "sleep" => Len(sleepData) < MaxSleep
  /\ UNCHANGED <<decVars, users, nextOid, last, act, observed, now, presenceState, msgs>>
  /\ IF devices[d].oid = 0
       THEN /\ lastMsg' = Msg("http", d, kind, pl, FALSE, FALSE, 404)
            /\ UNCHANGED <<devices, healthData, sleepData>>
     ELSE /\ devices' = Touch(devices, d, now)
          /\ IF kind = "health"
               THEN /\ healthData' = Append(healthData,
                                          MergedRecord(BaseRecord(d, pl, now), pl))
                    /\ UNCHANGED sleepData
                    /\ lastMsg' = Msg("http", d, kind, pl, TRUE, FALSE, 200)
             ELSE IF kind = "sleep"
               THEN /\ sleepData' = Append(sleepData, SleepRecord(d, now))
                    /\ UNCHANGED healthData
                    /\ lastMsg' = Msg("http", d, kind, pl, TRUE, FALSE, 200)
             ELSE /\ UNCHANGED <<healthData, sleepData>>
                  /\ lastMsg' = Msg("http", d, kind, pl, FALSE, FALSE, 400)

(***************************************************************************)
(* The MQTT handler with its awaits as separate steps.  A slot of msgs     *)
(* holds one invocation of client.on("message"): its position, the device  *)
(* document findOne returned, the record it is about to save, the cutoff   *)
(* of the deleteMany it issued and the tracker object it holds (the one    *)
(* in presenceState, "map", or one of its own, "own").                     *)
(***************************************************************************)
MsgInFlight(m) == m.pc \notin {"idle", "done"}

Arrivals == CHOOSE n \in 0..MaxArrivals :
              /\ \A s \in 1..MaxConc : msgs[s].seq <= n
              /\ \E s \in 1..MaxConc : msgs[s].seq = n

PendingHealth == Cardinality({s \in 1..MaxConc :
                    MsgInFlight(msgs[s]) /\ msgs[s].kind = "health"})
PendingSleep == Cardinality({s \in 1..MaxConc :
                    MsgInFlight(msgs[s]) /\ msgs[s].kind = "sleep"})

MsgDone(m, retracted) ==
  [IdleMsg EXCEPT !.pc = "done", !.dev = m.dev, !.kind = m.kind, !.seq = m.seq,
                  !.presence = m.presence, !.cutoff = m.cutoff,
                  !.retracted = retracted]

\* line 464: a message arrives; line 477: findOne returns the device document
MsgArrive(s, d, kind, pl) ==
  /\ ~MsgInFlight(msgs[s])
  /\ \A x \in 1..(s - 1) : MsgInFlight(msgs[x])
  /\ Arrivals < MaxArrivals
  /\ kind = "health" => Len(healthData) + PendingHealth < MaxRecords
  /\ kind = "sleep" => Len(sleepData) + PendingSleep < MaxSleep
  /\ msgs' = [msgs EXCEPT ![s] =
       [IdleMsg EXCEPT !.pc = "found", !.dev = d, !.kind = kind,
                       !.heartRate = pl.heartRate, !.presence = pl.presence,
                       !.lineHr = pl.lineHr, !.linePresence = pl.linePresence,
                       !.docOid = devices[d].oid,
                       !.docType = devices[d].deviceType,
                       !.seq = Arrivals + 1]]
  /\ UNCHANGED <<decVars, storeVars, last, act, observed, now, pipeVars>>

\* lines 478-486: findByIdAndUpdate(device._id, {status: "active", ...})
MsgTouch(s) ==
  /\ msgs[s].pc = "found"
  /\ devices' = IF msgs[s].docOid # 0 THEN Touch(devices, msgs[s].dev, now)
                ELSE devices
  /\ msgs' = [msgs EXCEPT ![s].pc = "touched"]
  /\ UNCHANGED <<decVars, users, nextOid, last, act, observed, now, pipeVars>>

\* lines 488-562 up to the first await: the base record, the presence gate
\* and the rules
MsgGate(s) ==
  LET m == msgs[s]
      d == m.dev
      pl == [heartRate |-> m.heartRate, presence |-> m.presence,
             lineHr |-> m.lineHr, linePresence |-> m.linePresence]
      base == BaseRecord(d, pl, now)
      presence == PresenceOf(base)
      held == IF presenceState[d].known THEN presenceState[d] ELSE NoEntry
      gated == [known |-> TRUE, lastPresence |-> presence,
                lastValues |-> held.lastValues]
      rules == MetricSpec(m.docType)
      passes == PassesRules(rules, held.lastValues, pl, base)
  IN
  /\ m.pc = "touched"
  /\ m.kind = "health"
  /\ UNCHANGED <<decVars, storeVars, last, act, observed, now, healthData, sleepData,
                 lastMsg>>
  /\ IF DropsPresence(held, presence)
       THEN /\ msgs' = [msgs EXCEPT ![s].pc = "retracting",
                          ![s].cutoff = now - RetractWindowMs,
                          ![s].ref = IF presenceState[d].known THEN "map" ELSE "own",
                          ![s].own = held]
            /\ UNCHANGED presenceState
     ELSE IF presence = 0 \/ m.docOid = 0
       THEN /\ presenceState' = [presenceState EXCEPT ![d] = gated]
            /\ msgs' = [msgs EXCEPT ![s] = MsgDone(m, FALSE)]
     ELSE /\ presenceState' = [presenceState EXCEPT ![d] =
                 [gated EXCEPT !.lastValues =
                    LastValuesAfter(rules, held.lastValues, pl, base)]]
          /\ msgs' = [msgs EXCEPT ![s] =
                 IF passes THEN [m EXCEPT !.pc = "saving",
                                          !.rec = MergedRecord(base, pl)]
                 ELSE MsgDone(m, FALSE)]

\* lines 526-537: the deleteMany lands, the handler resumes, writes
\* state.lastPresence and puts the object it holds into presenceState
MsgRetracted(s) ==
  LET m == msgs[s]
      d == m.dev
      mine == IF m.ref = "map" THEN presenceState[d] ELSE m.own
  IN
  /\ m.pc = "retracting"
  /\ healthData' = Retract(healthData, d, m.cutoff)
  /\ presenceState' = [presenceState EXCEPT ![d] =
       [mine EXCEPT !.known = TRUE, !.lastPresence = 0]]
  /\ msgs' = [x \in 1..MaxConc |->
       IF x = s THEN MsgDone(m, TRUE)
       ELSE IF /\ m.ref = "own" /\ msgs[x].pc = "retracting"
               /\ msgs[x].dev = d /\ msgs[x].ref = "map"
         THEN [msgs[x] EXCEPT !.ref = "own", !.own = presenceState[d]]
       ELSE msgs[x]]
  /\ UNCHANGED <<decVars, storeVars, last, act, observed, now, sleepData, lastMsg>>

\* line 615: newHealthData.save() lands
MsgSaved(s) ==
  /\ msgs[s].pc = "saving"
  /\ healthData' = Append(healthData, msgs[s].rec)
  /\ msgs' = [msgs EXCEPT ![s] = MsgDone(msgs[s], FALSE)]
  /\ UNCHANGED <<decVars, storeVars, last, act, observed, now, sleepData, presenceState,
                 lastMsg>>

\* lines 617-625: the sleep record is built and saved
MsgSleepSaved(s) ==
  /\ msgs[s].pc = "touched"
  /\ msgs[s].kind = "sleep"
  /\ sleepData' = Append(sleepData, SleepRecord(msgs[s].dev, now))
  /\ msgs' = [msgs EXCEPT ![s] = MsgDone(msgs[s], FALSE)]
  /\ UNCHANGED <<decVars, storeVars, last, act, observed, now, healthData, presenceState,
                 lastMsg>>

\* time passes between two steps
Tick ==
  /\ now < MaxTicks * TickMs
  /\ now' = now + TickMs
  /\ UNCHANGED <<decVars, storeVars, last, act, observed, pipeVars, msgs>>

(***************************************************************************)
(* PUT /activate/:deviceId?profileId= -- the storage steps of the handler. *)
(***************************************************************************)
\* the conflict test with the comparison of the profiles inverted
ActivateConflictSameProfile(doc, p) ==
  doc.status = "active" /\ doc.profileId # None /\ doc.profileId = p

\* line 339: already active under another profile
ActivateConflict(doc, p) ==
  doc.status = "active" /\ doc.profileId # None /\ doc.profileId # p

\* line 347: Device.updateMany({ profileId }, { $set: { status: "inactive" } })
DeactivateAllFor(devs, p) ==
  [d \in DeviceIds |->
     IF devs[d].oid # 0 /\ devs[d].profileId = p
       THEN [devs[d] EXCEPT !.status = "inactive"]
       ELSE devs[d]]

\* lines 350-353: the loaded document is assigned status, profileId and
\* lastActiveAt and saved; save() sends only the paths whose assigned value
\* differs from the value that was loaded.
SaveActivated(devs, d, doc, p, t) ==
  [devs EXCEPT ![d] =
     [@ EXCEPT !.status = IF doc.status # "active" THEN "active" ELSE @,
               !.profileId = IF doc.profileId # p THEN p ELSE @,
               !.lastActiveAt = t]]

\* save() of a document whose _id is no longer in the collection fails
SaveFinds(devs, d, doc) == devs[d].oid = doc.oid

\* lines 354-358: User.findByIdAndUpdate(device.userId, {activeDevice: device._id})
PointUserAt(us, uid, oid) ==
  IF uid \in UserIds THEN [us EXCEPT ![uid].activeDevice = oid] ELSE us

\* the whole handler, run without interleaving
Activate(d, p) ==
  LET doc == devices[d] IN
  /\ UNCHANGED <<decVars, nextOid, act, observed, now, pipeVars, msgs>>
  /\ IF p = None
       THEN /\ last' = Resp("activate", d, p, None, 400)
            /\ UNCHANGED <<devices, users>>
     ELSE IF doc.oid = 0
       THEN /\ last' = Resp("activate", d, p, None, 404)
            /\ UNCHANGED <<devices, users>>
     ELSE IF ActivateConflict(doc, p)
       THEN /\ last' = Resp("activate", d, p, None, 409)
            /\ UNCHANGED <<devices, users>>
     ELSE /\ devices' = SaveActivated(DeactivateAllFor(devices, p), d, doc, p, now)
          /\ users' = PointUserAt(users, doc.userId, doc.oid)
          /\ last' = Resp("activate", d, p, None, 200)

(***************************************************************************)
(* POST /add (manual deviceId or prefixId).                                *)
(***************************************************************************)
\* line 60: (status || 'inactive').toLowerCase()
ProcessedStatus(raw) ==
  IF raw = NoStatus THEN [word |-> "inactive", upper |-> FALSE, padded |-> FALSE]
  ELSE ToLowerCase(raw)

\* lines 111-127: push the new _id; take it as the active device when the
\* user has none and the device was created active
UserAfterAdd(udoc, oid, status) ==
  [udoc EXCEPT !.devices = @ \cup {oid},
               !.activeDevice = IF @ = 0 /\ status = "active" THEN oid ELSE @]

Add(u, d, viaPrefix, type, raw, p) ==
  LET st == ProcessedStatus(raw) IN
  /\ nextOid <= MaxOid
  /\ UNCHANGED <<decVars, act, observed, now, pipeVars, msgs>>
  /\ IF viaPrefix
       \* line 83 reads the undeclared name `session`: a ReferenceError,
       \* answered 400 by the catch block
       THEN /\ last' = Resp("add", d, None, u, 400)
            /\ UNCHANGED storeVars
     ELSE IF devices[d].oid # 0
       \* unique index on deviceId: duplicate key
       THEN /\ last' = Resp("add", d, None, u, 409)
            /\ UNCHANGED storeVars
     ELSE IF ~EnumValid(st)
       THEN /\ last' = Resp("add", d, None, u, 400)
            /\ UNCHANGED storeVars
     ELSE /\ devices' = [devices EXCEPT ![d] =
                 [oid |-> nextOid, status |-> st.word, profileId |-> p,
                  userId |-> u, deviceType |-> type, lastActiveAt |-> now]]
          /\ nextOid' = nextOid + 1
          /\ users' = IF u \in UserIds
                        THEN [users EXCEPT ![u] = UserAfterAdd(@, nextOid, st.word)]
                        ELSE users
          /\ last' = Resp("add", d, None, u, 201)

(***************************************************************************)
(* deviceManagementController: setActiveDevice, setInactiveDevice,         *)
(* updateDevice, deleteDevice.                                             *)
(***************************************************************************)
SetActiveDevice(u, d) ==
  /\ UNCHANGED <<decVars, nextOid, act, observed, now, pipeVars, msgs>>
  /\ IF u \notin UserIds
       THEN /\ last' = Resp("setActive", d, None, u, 404)
            /\ UNCHANGED <<devices, users>>
     ELSE IF devices[d].oid = 0
       THEN /\ last' = Resp("setActive", d, None, u, 404)
            /\ UNCHANGED <<devices, users>>
     ELSE /\ devices' = [devices EXCEPT ![d].status = "active", ![d].userId = u]
          /\ users' = [users EXCEPT ![u].activeDevices = @ \cup {devices[d].oid}]
          /\ last' = Resp("setActive", d, None, u, 200)

SetInactiveDevice(u, d) ==
  /\ UNCHANGED <<decVars, nextOid, act, observed, now, pipeVars, msgs>>
  /\ IF u \notin UserIds
       THEN /\ last' = Resp("setInactive", d, None, u, 404)
            /\ UNCHANGED <<devices, users>>
     ELSE IF devices[d].oid = 0
       THEN /\ last' = Resp("setInactive", d, None, u, 404)
            /\ UNCHANGED <<devices, users>>
     ELSE /\ devices' = [devices EXCEPT ![d].status = "inactive"]
          /\ users' = [users EXCEPT ![u].activeDevices = @ \ {devices[d].oid}]
          /\ last' = Resp("setInactive", d, None, u, 200)

\* lines 90-92: normalisation of the status field of an update
NormalizedStatus(raw) ==
  IF raw = NoStatus THEN NoStatus ELSE Trim(ToLowerCase(raw))

\* a clearing that does not look at which device the pointer names
ClearPointerAny(us, uid, oid) ==
  IF uid \in UserIds
    THEN [us EXCEPT ![uid].activeDevice = 0]
    ELSE us

\* lines 111-119: clear the owning user's pointer when it is this device
ClearPointer(us, uid, oid) ==
  IF uid \in UserIds /\ us[uid].activeDevice = oid
    THEN [us EXCEPT ![uid].activeDevice = 0]
    ELSE us

\* id is the Mongo _id; the fields modelled are status and userId
UpdateDevice(id, raw, newUser) ==
  LET d == ById(devices, id)
      st == NormalizedStatus(raw)
  IN
  /\ UNCHANGED <<decVars, nextOid, act, observed, now, pipeVars, msgs>>
  /\ IF st # NoStatus /\ ~EnumValid(st)
       \* runValidators: the enum rejects the value, answered 500
       THEN /\ last' = Resp("update", d, None, None, 500)
            /\ UNCHANGED <<devices, users>>
     ELSE IF d = None
       THEN /\ last' = Resp("update", d, None, None, 404)
            /\ UNCHANGED <<devices, users>>
     ELSE LET upd == [devices[d] EXCEPT
                        !.status = IF st = NoStatus THEN @ ELSE st.word,
                        !.userId = IF newUser = Absent THEN @ ELSE newUser]
          IN
          /\ devices' = [devices EXCEPT ![d] = upd]
          /\ users' = IF IsLiteral(st, "inactive") /\ upd.userId # None
                        THEN ClearPointer(users, upd.userId, upd.oid)
                        ELSE users
          /\ last' = Resp("update", d, None, None, 200)

DeleteDevice(d) ==
  /\ UNCHANGED <<decVars, nextOid, act, observed, now, pipeVars, msgs>>
  /\ IF devices[d].oid = 0
       THEN /\ last' = Resp("delete", d, None, None, 404)
            /\ UNCHANGED <<devices, users>>
     ELSE /\ users' = IF devices[d].userId # None
                        THEN ClearPointer(users, devices[d].userId, devices[d].oid)
                        ELSE users
          /\ devices' = [devices EXCEPT ![d] = NoDevice]
          /\ last' = Resp("delete", d, None, None, 200)

(***************************************************************************)
(* GET /mapping/:profileId and GET /profiles/:profileId/active-device.     *)
(***************************************************************************)
IdleAct ==
  [pc |-> "idle", dev |-> None, prof |-> None, doc |-> NoDevice,
   before |-> {}, code |-> 0]

InFlight(h) == h.pc \notin {"idle", "done"}

NoObservation == [kind |-> "none", prof |-> None, active |-> {}]

\* the devices the mapping lists with active: true
MappingQuery(p) ==
  /\ observed' = [kind |-> "mapping", prof |-> p, active |-> ActiveOf(devices, p)]
  /\ UNCHANGED <<decVars, storeVars, last, act, now, pipeVars, msgs>>

\* findOne returns one of the matching documents, or null
ActiveDeviceQuery(p) ==
  /\ \E r \in (IF ActiveOf(devices, p) = {} THEN {None} ELSE ActiveOf(devices, p)) :
       observed' = [kind |-> "active-device", prof |-> p,
                    active |-> IF r = None THEN {} ELSE {r}]
  /\ UNCHANGED <<decVars, storeVars, last, act, now, pipeVars, msgs>>

Init ==
  /\ devices = [d \in DeviceIds |-> NoDevice]
  /\ users = [u \in UserIds |-> NoUserDoc]
  /\ nextOid = 1
  /\ last = NoLast
  /\ act = [s \in 1..MaxConc |-> IdleAct]
  /\ observed = NoObservation
  /\ now = 0
  /\ healthData = <<>>
  /\ sleepData = <<>>
  /\ presenceState = [d \in DeviceIds |-> NoEntry]
  /\ lastMsg = NoMsg
  /\ msgs = [s \in 1..MaxConc |-> IdleMsg]
  /\ line = NoLine
  /\ parsed = NotParsed
  /\ data = NoInput
  /\ merged = NotMerged

\* the device management API, called by the users Us for the devices Ds
ManageOn(Us, Ds, Ts) ==
  \/ \E u \in Us, d \in Ds, type \in Ts,
        raw \in RawStatuses \cup {NoStatus}, p \in ProfileIds \cup {None} :
          Add(u, d, FALSE, type, raw, p)
  \/ \E u \in Us, d \in Ds, type \in Ts : Add(u, d, TRUE, type, NoStatus, None)
  \/ \E d \in Ds, p \in ProfileIds \cup {None} : Activate(d, p)
  \/ \E u \in Us \cup {GhostUser}, d \in Ds : SetActiveDevice(u, d)
  \/ \E u \in Us \cup {GhostUser}, d \in Ds : SetInactiveDevice(u, d)
  \/ \E id \in Oids, raw \in RawStatuses \cup {NoStatus},
        newUser \in Us \cup {Absent} : UpdateDevice(id, raw, newUser)
  \/ \E d \in Ds : DeleteDevice(d)

Next == ManageOn({"u1"}, DeviceIds, {"plain"})

Spec == Init /\ [][Next]_vars

\* the same API called by two users for one device
NextOwners == ManageOn(UserIds, {"A"}, {"plain"})

SpecOwners == Init /\ [][NextOwners]_vars

(***************************************************************************)
(* PUT /activate handlers interleaved at their awaits: findOne (335),      *)
(* updateMany (347), save (353), User.findByIdAndUpdate (354).  A slot     *)
(* keeps the finished request and its response until it takes the next.    *)
(***************************************************************************)
Finished(h, code) ==
  [h EXCEPT !.pc = "done", !.code = code, !.doc = NoDevice, !.before = {}]

\* a request is taken by the lowest slot that is not busy
FreeSlot(s) ==
  /\ ~InFlight(act[s])
  /\ \A x \in DOMAIN act : x < s => InFlight(act[x])

ActStart(s, d, p) ==
  LET doc == devices[d]
      h == [pc |-> "loaded", dev |-> d, prof |-> p, doc |-> doc,
            before |-> ActiveOf(devices, p), code |-> 0]
  IN
  /\ FreeSlot(s)
  /\ UNCHANGED <<decVars, storeVars, last, observed, now, pipeVars, msgs>>
  /\ IF doc.oid = 0
       THEN act' = [act EXCEPT ![s] = Finished(h, 404)]
     ELSE IF ActivateConflict(doc, p)
       THEN act' = [act EXCEPT ![s] = Finished(h, 409)]
     ELSE act' = [act EXCEPT ![s] = h]

ActDeactivate(s) ==
  /\ act[s].pc = "loaded"
  /\ devices' = DeactivateAllFor(devices, act[s].prof)
  /\ act' = [act EXCEPT ![s].pc = "cleared"]
  /\ UNCHANGED <<decVars, users, nextOid, last, observed, now, pipeVars, msgs>>

ActSave(s) ==
  /\ act[s].pc = "cleared"
  /\ UNCHANGED <<decVars, users, nextOid, last, observed, now, pipeVars, msgs>>
  /\ IF SaveFinds(devices, act[s].dev, act[s].doc)
       THEN /\ devices' = SaveActivated(devices, act[s].dev, act[s].doc,
                                        act[s].prof, now)
            /\ act' = [act EXCEPT ![s].pc = "saved"]
       ELSE /\ act' = [act EXCEPT ![s] = Finished(@, 500)]
            /\ UNCHANGED devices

ActPoint(s) ==
  /\ act[s].pc = "saved"
  /\ users' = PointUserAt(users, act[s].doc.userId, act[s].doc.oid)
  /\ act' = [act EXCEPT ![s] = Finished(@, 200)]
  /\ UNCHANGED <<decVars, devices, nextOid, last, observed, now, pipeVars, msgs>>

\* two devices of two users, added inactive and unbound
InitConc ==
  /\ devices = [d \in DeviceIds |->
       [oid |-> IF d = "A" THEN 1 ELSE 2, status |-> "inactive",
        profileId |-> None, userId |-> IF d = "A" THEN "u1" ELSE "u2",
        deviceType |-> "plain", lastActiveAt |-> 0]]
  /\ users = [u \in UserIds |->
       [NoUserDoc EXCEPT !.devices = IF u = "u1" THEN {1} ELSE {2}]]
  /\ nextOid = 3
  /\ last = NoLast
  /\ act = [s \in 1..MaxConc |-> IdleAct]
  /\ observed = NoObservation
  /\ now = 0
  /\ healthData = <<>>
  /\ sleepData = <<>>
  /\ presenceState = [d \in DeviceIds |-> NoEntry]
  /\ lastMsg = NoMsg
  /\ msgs = [s \in 1..MaxConc |-> IdleMsg]
  /\ line = NoLine
  /\ parsed = NotParsed
  /\ data = NoInput
  /\ merged = NotMerged

NextConc ==
  \/ \E s \in 1..MaxConc, d \in DeviceIds, p \in ProfileIds : ActStart(s, d, p)
  \/ \E s \in 1..MaxConc : ActDeactivate(s)
  \/ \E s \in 1..MaxConc : ActSave(s)
  \/ \E s \in 1..MaxConc : ActPoint(s)
  \/ \E p \in ProfileIds : MappingQuery(p)
  \/ \E p \in ProfileIds : ActiveDeviceQuery(p)

SpecConc == InitConc /\ [][NextConc]_vars

(***************************************************************************)
(* The ingestion pipeline, one message at a time, for a device A of any    *)
(* type; the deviceId B has no device document.                            *)
(***************************************************************************)
InitIngest ==
  /\ \E type \in DeviceTypes :
       devices = [d \in DeviceIds |->
         IF d = "A"
           THEN [oid |-> 1, status |-> "inactive", profileId |-> None, userId |-> "u1",
                 deviceType |-> type, lastActiveAt |-> 0]
           ELSE NoDevice]
  /\ users = [u \in UserIds |->
       [NoUserDoc EXCEPT !.devices = IF u = "u1" THEN {1} ELSE {}]]
  /\ nextOid = 2
  /\ last = NoLast
  /\ act = [s \in 1..MaxConc |-> IdleAct]
  /\ observed = NoObservation
  /\ now = 0
  /\ healthData = <<>>
  /\ sleepData = <<>>
  /\ presenceState = [d \in DeviceIds |-> NoEntry]
  /\ lastMsg = NoMsg
  /\ msgs = [s \in 1..MaxConc |-> IdleMsg]
  /\ line = NoLine
  /\ parsed = NotParsed
  /\ data = NoInput
  /\ merged = NotMerged

IngestOn(Ds) ==
  \/ \E d \in Ds, pl \in Payloads : MqttHealth(d, pl)
  \/ \E d \in Ds : MqttSleep(d)
  \/ \E d \in Ds, pl \in Payloads : HttpIngest(d, "health", pl)
  \/ \E d \in Ds, kind \in {"sleep", "other"} : HttpIngest(d, kind, NoPayload)

NextIngest == IngestOn({"A"})

SpecIngest == InitIngest /\ [][NextIngest]_vars

\* the same pipeline, fed with messages that name the deviceId B
NextUnknown == IngestOn({"B"})

SpecUnknown == InitIngest /\ [][NextUnknown]_vars

(***************************************************************************)
(* The pipeline with a clock: device A starts in any status, and time      *)
(* passes between messages.                                                *)
(***************************************************************************)
ClockPayloads == WithLines([heartRate : {75}, presence : {0, 1}], NoLines)

InitClock ==
  /\ \E type \in DeviceTypes, st \in Statuses :
       devices = [d \in DeviceIds |->
         IF d = "A"
           THEN [oid |-> 1, status |-> st, profileId |-> None, userId |-> "u1",
                 deviceType |-> type, lastActiveAt |-> 0]
           ELSE NoDevice]
  /\ users = [u \in UserIds |->
       [NoUserDoc EXCEPT !.devices = IF u = "u1" THEN {1} ELSE {}]]
  /\ nextOid = 2
  /\ last = NoLast
  /\ act = [s \in 1..MaxConc |-> IdleAct]
  /\ observed = NoObservation
  /\ now = 0
  /\ healthData = <<>>
  /\ sleepData = <<>>
  /\ presenceState = [d \in DeviceIds |-> NoEntry]
  /\ lastMsg = NoMsg
  /\ msgs = [s \in 1..MaxConc |-> IdleMsg]
  /\ line = NoLine
  /\ parsed = NotParsed
  /\ data = NoInput
  /\ merged = NotMerged

NextClock ==
  \/ \E pl \in ClockPayloads : MqttHealth("A", pl)
  \/ MqttSleep("A")
  \/ \E pl \in ClockPayloads : HttpIngest("A", "health", pl)
  \/ HttpIngest("A", "sleep", NoPayload)
  \/ Tick

SpecClock == InitClock /\ [][NextClock]_vars

(***************************************************************************)
(* The pipeline fed with health messages that carry decoder lines.         *)
(***************************************************************************)
LinePayloads ==
  WithLines([heartRate : {75, AbsentN}, presence : {1, AbsentN}],
            [lineHr : {25, 75, AbsentN}, linePresence : {0, 1, AbsentN}])

NextLines ==
  \/ \E pl \in LinePayloads : MqttHealth("A", pl)
  \/ \E pl \in LinePayloads : HttpIngest("A", "health", pl)

SpecLines == InitIngest /\ [][NextLines]_vars

(***************************************************************************)
(* The MQTT handler under interleaving: messages for device A arrive while *)
(* earlier ones are still being handled.                                   *)
(***************************************************************************)
MqttOn(Ds, Pls) ==
  \/ \E s \in 1..MaxConc, d \in Ds, pl \in Pls : MsgArrive(s, d, "health", pl)
  \/ \E s \in 1..MaxConc, d \in Ds : MsgArrive(s, d, "sleep", NoPayload)
  \/ \E s \in 1..MaxConc : MsgTouch(s)
  \/ \E s \in 1..MaxConc : MsgGate(s)
  \/ \E s \in 1..MaxConc : MsgRetracted(s)
  \/ \E s \in 1..MaxConc : MsgSaved(s)
  \/ \E s \in 1..MaxConc : MsgSleepSaved(s)
  \/ Tick

NextMqtt ==
  MqttOn({"A"}, WithLines([heartRate : {75}, presence : {0, 1}], NoLines))

SpecMqtt == InitIngest /\ [][NextMqtt]_vars

(***************************************************************************)
(* The decoder applied to one line: an HRV_DATA line of up to MaxFields    *)
(* values, at most one of them not a number, or a line of any tag with up  *)
(* to two values.                                                          *)
(***************************************************************************)
HrvLines ==
  {[tag |-> "HRV_DATA",
    fields |-> [i \in 1..n |-> IF i = bad THEN tok ELSE Num(100 + i)]] :
      n \in 0..MaxFields, bad \in 0..MaxFields, tok \in {Blank, Text, Inf}}
ShortLines ==
  {[tag |-> t, fields |-> f] :
     t \in Tags \cup {""},
     f \in {<<>>} \cup {<<x>> : x \in Tokens} \cup {<<x, y>> : x, y \in Tokens}}
Lines == HrvLines \cup ShortLines

InitDecode ==
  /\ devices = [d \in DeviceIds |-> NoDevice]
  /\ users = [u \in UserIds |-> NoUserDoc]
  /\ nextOid = 1
  /\ last = NoLast
  /\ act = [s \in 1..MaxConc |-> IdleAct]
  /\ observed = NoObservation
  /\ now = 0
  /\ healthData = <<>>
  /\ sleepData = <<>>
  /\ presenceState = [d \in DeviceIds |-> NoEntry]
  /\ lastMsg = NoMsg
  /\ msgs = [s \in 1..MaxConc |-> IdleMsg]
  /\ line \in Lines
  /\ parsed = NotParsed
  /\ data = NoInput
  /\ merged = NotMerged

NextDecode == Decode

SpecDecode == InitDecode /\ [][NextDecode]_vars

(***************************************************************************)
(* The line merge applied to one health payload that carries up to         *)
(* MaxLines decoder lines.                                                 *)
(***************************************************************************)
MergeLineSet ==
  {[tag |-> t, fields |-> f] :
     t \in {"HR", "RES", "PRESENCE", "LOG"},
     f \in {<<>>} \cup {<<x>> : x \in {Num(1), Num(80), Text, Blank}}}
  \cup {NoLine}
LineSeqs ==
  UNION {[1..n -> MergeLineSet] : n \in 0..MaxLines}
Inputs ==
  {[heartRate |-> hr, presence |-> pr, seq |-> q] :
     hr \in {75, AbsentN}, pr \in {1, AbsentN}, q \in LineSeqs}

InitMerge ==
  /\ devices = [d \in DeviceIds |-> NoDevice]
  /\ users = [u \in UserIds |-> NoUserDoc]
  /\ nextOid = 1
  /\ last = NoLast
  /\ act = [s \in 1..MaxConc |-> IdleAct]
  /\ observed = NoObservation
  /\ now = 0
  /\ healthData = <<>>
  /\ sleepData = <<>>
  /\ presenceState = [d \in DeviceIds |-> NoEntry]
  /\ lastMsg = NoMsg
  /\ msgs = [s \in 1..MaxConc |-> IdleMsg]
  /\ line = NoLine
  /\ parsed = NotParsed
  /\ data \in Inputs
  /\ merged = NotMerged

NextMerge == Merge

SpecMerge == InitMerge /\ [][NextMerge]_vars

(***************************************************************************)
(* Device activation manager: properties.                                  *)
(***************************************************************************)

\* C1: in every reachable state, for every profile, at most one device
\* bound to that profile has status active.
C1_AtMostOneActivePerProfile ==
  \A p \in ProfileIds : Cardinality(ActiveOf(devices, p)) <= 1

\* C2: once two activations of distinct devices for the same profile have
\* both completed, exactly one of the two devices is active for that
\* profile and the other is inactive.
C2_ConcurrentActivateExclusive ==
  \A s1, s2 \in DOMAIN act :
    (/\ s1 # s2
     /\ act[s1].pc = "done" /\ act[s1].code = 200
     /\ act[s2].pc = "done" /\ act[s2].code = 200
     /\ act[s1].prof = act[s2].prof
     /\ act[s1].dev # act[s2].dev)
    => \E w \in {act[s1].dev, act[s2].dev} :
         /\ ActiveOf(devices, act[s1].prof) \cap {act[s1].dev, act[s2].dev} = {w}
         /\ \A o \in {act[s1].dev, act[s2].dev} \ {w} :
              devices[o].status = "inactive"

\* C3: a mapping or active-device query of profile p that runs while
\* Activate(b, p) is the only activation under way, a being the one active
\* device of p when it started, reports a active or b active, never no
\* active device and never two.
C3_ActivationObservedAtomically ==
  [][\A p \in ProfileIds : \A s \in DOMAIN act :
       (/\ MappingQuery(p) \/ ActiveDeviceQuery(p)
        /\ InFlight(act[s]) /\ act[s].prof = p
        /\ \A x \in DOMAIN act : x # s => act[x].pc = "idle"
        /\ Cardinality(act[s].before) = 1
        /\ act[s].dev \notin act[s].before)
       => observed'.active \in {act[s].before, {act[s].dev}}]_vars

\* C4: Activate(d, p) called again right after Activate(d, p) succeeded
\* leaves d active and bound to p, no other device of p active, and the
\* store as the first call left it (the last-active timestamp apart).
C4_ActivateIdempotent ==
  [][\A d \in DeviceIds, p \in ProfileIds :
       (/\ last = Resp("activate", d, p, None, 200)
        /\ last' = Resp("activate", d, p, None, 200))
       => /\ devices'[d].status = "active"
          /\ devices'[d].profileId = p
          /\ ActiveOf(devices', p) = {d}
          /\ \A e \in DeviceIds :
               devices'[e] = [devices[e] EXCEPT !.lastActiveAt = devices'[e].lastActiveAt]
          /\ users' = users]_vars

\* C5: Activate(d, p) of a device that is active under another profile
\* answers Conflict (409) and changes no device and no user.
C5_ConflictLeavesStore ==
  [][\A d \in DeviceIds, p \in ProfileIds :
       (/\ devices[d].oid # 0
        /\ devices[d].status = "active"
        /\ devices[d].profileId \notin {None, p}
        /\ last'.op = "activate" /\ last'.dev = d /\ last'.prof = p)
       => /\ last'.code = 409
          /\ devices' = devices
          /\ users' = users]_vars

\* a conflict was just answered for a device active under another profile,
\* while another device is bound to the requested profile
C5_Witness ==
  \E d \in DeviceIds, e \in DeviceIds, p \in ProfileIds :
    /\ last = Resp("activate", d, p, None, 409)
    /\ devices[d].status = "active" /\ devices[d].profileId \notin {None, p}
    /\ e # d /\ devices[e].oid # 0 /\ devices[e].profileId = p
    /\ \E u \in UserIds : users[u].activeDevice # 0

\* C6: a successful Activate(d, p), run without interleaving, leaves every
\* other device that was bound to p inactive, d active and bound to p, and
\* the active-device pointer of d's owning user at d.
C6_ActivatePostcondition ==
  [][\A d \in DeviceIds, p \in ProfileIds :
       last' = Resp("activate", d, p, None, 200) /\ Activate(d, p)
       => /\ \A e \in BoundTo(devices, p) \ {d} : devices'[e].status = "inactive"
          /\ devices'[d].status = "active"
          /\ devices'[d].profileId = p
          /\ devices[d].userId \in UserIds
               => users'[devices[d].userId].activeDevice = devices[d].oid]_vars

(***************************************************************************)
(* Ingestion pipeline: properties.                                         *)
(***************************************************************************)

C8_AbsentNeverPersisted ==
  \A i \in 1..Len(healthData) : healthData[i].presence # 0

OutOfBounds(rule, v) ==
  \/ rule.min # NoBound /\ v < rule.min
  \/ rule.max # NoBound /\ v > rule.max

\* C9: a health message that carries a value of a rule-bounded metric outside
\* [min, max] adds no telemetry record at all, on either transport.
C9_OutOfBoundsRejected ==
  [][(/\ lastMsg'.kind = "health"
      /\ devices[lastMsg'.dev].oid # 0
      /\ "heartRate" \in DOMAIN MetricSpec(devices[lastMsg'.dev].deviceType)
      /\ lastMsg'.heartRate # AbsentN
      /\ OutOfBounds(MetricSpec(devices[lastMsg'.dev].deviceType)["heartRate"],
                     lastMsg'.heartRate))
     => (~lastMsg'.stored /\ Len(healthData') <= Len(healthData))]_vars

InBoundsPresent(m, type) ==
  /\ m.kind = "health"
  /\ m.presence = 1
  /\ m.heartRate # AbsentN
  /\ ~OutOfBounds(MetricSpec(type)["heartRate"], m.heartRate)

Stored(m) == IF m.stored THEN 1 ELSE 0

\* C10: for a device whose type bounds heartRate with mode on-change-only,
\* two consecutive in-bounds health messages with presence 1 leave exactly one
\* record when they carry the same value (the second is dropped) and two
\* records when they carry distinct values.
C10_OnChangeDedupe ==
  [][(/\ devices["A"].deviceType = "hrChange"
      /\ lastMsg.dev = "A" /\ lastMsg'.dev = "A"
      /\ InBoundsPresent(lastMsg, "hrChange")
      /\ InBoundsPresent(lastMsg', "hrChange"))
     => IF lastMsg.heartRate = lastMsg'.heartRate
          THEN /\ Stored(lastMsg) + Stored(lastMsg') = 1
               /\ Len(healthData') = Len(healthData)
          ELSE /\ Stored(lastMsg) + Stored(lastMsg') = 2
               /\ Len(healthData') = Len(healthData) + 1]_vars


\* C11: a health message with presence 1 for a known device whose type has no
\* rules passes the rule stage and is persisted: the step that handles it
\* adds one telemetry record.
C11_NoRulesAlwaysPersisted ==
  [][(/\ lastMsg'.kind = "health"
      /\ lastMsg'.presence = 1
      /\ devices[lastMsg'.dev].oid # 0
      /\ DOMAIN MetricSpec(devices[lastMsg'.dev].deviceType) = {})
     => (lastMsg'.stored /\ Len(healthData') = Len(healthData) + 1)]_vars


Retracts(m) == m.pc = "retracting" \/ (m.pc = "done" /\ m.retracted)

LatestHealth(d) ==
  {s \in 1..MaxConc :
     /\ msgs[s].dev = d /\ msgs[s].kind = "health"
     /\ \A x \in 1..MaxConc :
          (msgs[x].dev = d /\ msgs[x].kind = "health") => msgs[x].seq <= msgs[s].seq}

C13_UnknownDeviceRejected ==
  [][(lastMsg'.dev \in DeviceIds /\ devices[lastMsg'.dev].oid = 0)
     => (/\ healthData' = healthData
         /\ sleepData' = sleepData
         /\ ~lastMsg'.retracted
         /\ ~presenceState'[lastMsg'.dev].known)]_vars


\* C14: a sleep message for a known device is persisted as a sleep record,
\* whatever the device's tracker entry and rule table; handling it leaves the
\* tracker and the telemetry records as they were and retracts nothing.
C14_SleepAlwaysPersisted ==
  [][(/\ lastMsg'.kind = "sleep"
      /\ lastMsg'.dev \in DeviceIds
      /\ devices[lastMsg'.dev].oid # 0)
     => (/\ sleepData' = Append(sleepData, SleepRecord(lastMsg'.dev, now))
         /\ presenceState' = presenceState
         /\ healthData' = healthData
         /\ ~lastMsg'.retracted)]_vars

\* a sleep record was stored over MQTT for a rule-bound device that the
\* tracker holds as absent
C14_Witness ==
  /\ lastMsg.kind = "sleep" /\ lastMsg.via = "mqtt" /\ lastMsg.dev = "A"
  /\ presenceState["A"].known /\ presenceState["A"].lastPresence = 0
  /\ devices["A"].deviceType = "hrChange"
  /\ Len(sleepData) = 1


\* C15: a Deactivate request for an existing device by a user who is not its
\* owning user is rejected and changes neither the devices nor any user; a
\* Deactivate that succeeds leaves the device inactive and outside the
\* requesting user's active-device collection.
C15_DeactivateOwnerOnly ==
  [][last'.op = "setInactive" =>
       /\ (/\ devices[last'.dev].oid # 0
           /\ devices[last'.dev].userId # last'.user)
          => (/\ last'.code # 200
              /\ devices' = devices
              /\ users' = users)
       /\ last'.code = 200
          => (/\ devices'[last'.dev].status = "inactive"
              /\ devices[last'.dev].oid \notin
                   users'[last'.user].activeDevices)]_vars


\* C16: after a Delete that succeeds the device record is gone and no user
\* refers to it any more, neither by the active-device pointer nor in the
\* device list nor in the active-device collection.
C16_DeleteClearsReferences ==
  [][(last'.op = "delete" /\ last'.code = 200)
     => (/\ devices'[last'.dev].oid = 0
         /\ ById(devices', devices[last'.dev].oid) = None
         /\ \A u \in UserIds :
              /\ users'[u].activeDevice # devices[last'.dev].oid
              /\ devices[last'.dev].oid \notin users'[u].devices
              /\ devices[last'.dev].oid \notin users'[u].activeDevices)]_vars


SetsInactive(raw) == raw # NoStatus /\ raw.word = "inactive"

C18_TelemetrySetsActive ==
  [][(/\ now' = now
      /\ lastMsg'.kind \in {"health", "sleep"}
      /\ lastMsg'.stored
      /\ devices[lastMsg'.dev].oid # 0)
     => (/\ devices'[lastMsg'.dev].status = "active"
         /\ devices'[lastMsg'.dev].lastActiveAt = now)]_vars

\* a message was stored after time had passed, and the device carries the
\* time of that message
C18_Witness ==
  /\ now > 0
  /\ lastMsg.stored /\ lastMsg.dev = "A"
  /\ devices["A"].status = "active"
  /\ devices["A"].lastActiveAt = now


C20_AlwaysModeScenario ==
  [][(/\ devices["A"].deviceType = "hrAlways"
      /\ lastMsg'.dev = "A"
      /\ lastMsg'.kind = "health"
      /\ lastMsg'.presence = 1
      /\ lastMsg'.lineHr = AbsentN /\ lastMsg'.linePresence = AbsentN)
     => /\ lastMsg'.heartRate = 25
           => (~lastMsg'.stored /\ Len(healthData') = Len(healthData))
        /\ lastMsg'.heartRate = 75
           => (lastMsg'.stored /\ Len(healthData') = Len(healthData) + 1)]_vars


(***************************************************************************)
(* Line decoder: properties.                                               *)
(***************************************************************************)
AllNumeric(ln) == \A i \in 1..Len(ln.fields) : ln.fields[i].cls = "num"

FirstValueOutputs ==
  CASE ToUpperCase(line.tag) = "TEMP_HUM" -> {parsed.patch["temperature"]}
    [] ToUpperCase(line.tag) = "HR" -> {parsed.patch["heartRate"]}
    [] ToUpperCase(line.tag) = "RES" -> {parsed.patch["respiration"]}
    [] ToUpperCase(line.tag) = "STRESS" -> {parsed.patch["stress"]}
    [] ToUpperCase(line.tag) \in {"ACT", "ACTIVITY"} -> {parsed.signals["activity"]}
    [] ToUpperCase(line.tag) = "BAT" -> {parsed.signals["battery"]}
    [] ToUpperCase(line.tag) = "MIC" -> {parsed.signals["mic"]}
    [] OTHER -> {}

\* C22: the decoder always returns; a numeric field whose value is missing,
\* empty or not a finite number is absent, never zero; a field is zero only
\* when its value is the number zero.
C22_NonNumericIsAbsent ==
  /\ parsed.state \in {"pending", "null", "decoded"}
  /\ parsed.state = "decoded" =>
       \A v \in FirstValueOutputs :
         /\ Part(line, 1).cls # "num" => v = AbsentN
         /\ v = 0 => Part(line, 1) = Num(0)

\* C23: motion and presence are present only when the value reads as a
\* number, and are true exactly when it equals 1; a missing or non-numeric
\* value leaves the flag absent, not false.
C23_FlagsFromNumbers ==
  (parsed.state = "decoded" /\ line.tag \in {"MOTION", "PRESENCE"}) =>
    LET flag == parsed.flags[IF line.tag = "MOTION" THEN "motion" ELSE "presence"]
        v == Part(line, 1)
    IN /\ v.cls \in {"undefined", "text", "inf"} => flag = "undefined"
       /\ v.cls = "num" => flag = (IF v.n = 1 THEN "true" ELSE "false")

(***************************************************************************)
(* Presence/change tracker: properties.                                    *)
(***************************************************************************)

ViolationsOf(m, type) ==
  LET pl == [heartRate |-> m.heartRate, presence |-> m.presence,
             lineHr |-> m.lineHr, linePresence |-> m.linePresence]
  IN Violations(MetricSpec(type), pl, BaseRecord(m.dev, pl, 0))

Kept(hd, keep(_)) == SelectSeq(hd, keep)

C29_TransportsAgree ==
  [][(lastMsg'.via = "http" /\ lastMsg'.kind = "health" /\ lastMsg'.code = 200)
     => LET d == lastMsg'.dev
            pl == [heartRate |-> lastMsg'.heartRate,
                   presence |-> lastMsg'.presence,
                   lineHr |-> lastMsg'.lineHr,
                   linePresence |-> lastMsg'.linePresence]
            base == BaseRecord(d, pl, now)
            presence == PresenceOf(base)
            rules == MetricSpec(devices[d].deviceType)
            entry == presenceState[d]
            passes == PassesRules(rules, entry.lastValues, pl, base)
        IN /\ lastMsg'.stored <=> (presence # 0 /\ passes)
           /\ lastMsg'.retracted <=> DropsPresence(entry, presence)
           /\ presenceState'[d].lastPresence = presence
           /\ presence # 0 =>
                presenceState'[d].lastValues =
                  LastValuesAfter(rules, entry.lastValues, pl, base)]_vars

\* C30: in every reachable state, every user whose activeDevice pointer is
\* not null points at a device document that exists and has status active.
C30_PointerNamesActiveDevice ==
  \A u \in UserIds :
    users[u].activeDevice # 0
      => \E d \in DeviceIds : /\ devices[d].oid = users[u].activeDevice
                              /\ devices[d].status = "active"

(***************************************************************************)
(* Ingestion pipeline: rejected messages.                                  *)
(***************************************************************************)

\* C32: a message for a known device that is not accepted leaves the device
\* document as it is: a POST /ingest with a kind other than health or sleep
\* answers 400, persists nothing and leaves status and lastActiveAt unchanged,
\* and a health message that is dropped leaves the status unchanged.
C32_RejectedLeavesDevice ==
  [][(/\ lastMsg'.dev \in DeviceIds
      /\ devices[lastMsg'.dev].oid # 0
      /\ ~lastMsg'.stored)
     => LET d == lastMsg'.dev
        IN /\ lastMsg'.kind = "other" =>
                /\ lastMsg'.code = 400
                /\ UNCHANGED <<healthData, sleepData>>
                /\ devices'[d].status = devices[d].status
                /\ devices'[d].lastActiveAt = devices[d].lastActiveAt
           /\ lastMsg'.kind = "health" =>
                devices'[d].status = devices[d].status]_vars

(***************************************************************************)
(* Line merge: properties.                                                 *)
(***************************************************************************)

\* the positions of the lines of tag t whose value is a number
SettersOf(t) ==
  {i \in 1..Len(data.seq) :
     data.seq[i].tag = t /\ Part(data.seq[i], 1).cls = "num"}
LastOf(S) == CHOOSE i \in S : \A j \in S : j <= i

\* C31: in the document built from a payload and its lines, a field takes
\* the value of the last line that carries a value for it, and the value of
\* the payload when no line does: a line whose value for the field is missing
\* or unparseable leaves what an earlier line or the payload supplied.
C31_MergeLeftToRight ==
  merged.state = "built" =>
    /\ merged.heartRate =
         (IF SettersOf("HR") # {}
            THEN Part(data.seq[LastOf(SettersOf("HR"))], 1).n
          ELSE IF data.heartRate # AbsentN THEN data.heartRate ELSE 0)
    /\ merged.respiration =
         (IF SettersOf("RES") # {}
            THEN Part(data.seq[LastOf(SettersOf("RES"))], 1).n
          ELSE 0)
    /\ merged.presence =
         (IF SettersOf("PRESENCE") # {}
            THEN (IF Part(data.seq[LastOf(SettersOf("PRESENCE"))], 1).n = 1
                    THEN "true" ELSE "false")
          ELSE PresenceText(data.presence))

====
